---- MODULE Spec2Model ----
(***************************************************************************)
(* The API gateway of services/api-gateway/src/server.js as a state        *)
(* machine: the express middleware chain (helmet, cors, rate limiter,      *)
(* body decoding, routes, error handler, 404 handler), the rate limiter's  *)
(* store, the JWT issued by POST /oauth/token and verified by              *)
(* authenticateToken, and the proxied upstream call.                       *)
(*                                                                         *)
(* Time is Date.now() in milliseconds.  A request is handled in the steps  *)
(* at which node's event loop can interleave it with other requests: its   *)
(* arrival up to the rate limiter's `await store.increment`, the rest of   *)
(* the chain up to the response or the upstream call, and the upstream's   *)
(* answer.                                                                 *)
(***************************************************************************)
EXTENDS Integers, Sequences, FiniteSets, TLC

VARIABLES now, env, hits, reqs, wallet, win

vars == <<now, env, hits, reqs, wallet, win>>

(***************************************************************************)
(* Bounds of the model.                                                    *)
(***************************************************************************)
\* the clock stops advancing here
MaxNow == 5500000
\* requests a caller may send past the limit of one window
MaxOver == 2
\* requests per window in the specification that explores token lifetimes
MaxHitsTime == 2
\* tokens the callers keep
MaxWallet == 1
\* windows of the rate limiter the concurrent callers go through
MaxWindows == 1
\* requests per window in the specifications that explore the proxy
MaxHitsProxy == 3
\* requests per window of the second caller, beside one that exhausts its limit
MaxHitsOther == 2

(***************************************************************************)
(* Program constants.                                                      *)
(***************************************************************************)
\* rateLimit({windowMs: 15 * 60 * 1000, ...})
windowMs == 900000
\* rateLimit({max: 100, ...})
max == 100
\* jwt.sign(..., {expiresIn: '1h'}), in seconds
expiresIn == 3600
\* res.json({expires_in: 3600, ...})
expires_in == 3600

RateLimitMessage == "Too many requests from this IP, please try again later."
FallbackSecret == "fallback-secret"
TokenScope == "fhir:read fhir:write hl7:process"
TokenIssuer == "epic-ehr-gateway"

(***************************************************************************)
(* Values.                                                                 *)
(***************************************************************************)
Slots == {"r1", "r2"}
Ips == {"ip1", "ip2"}

NoPayload == [client_id |-> "", scope |-> "", iss |-> "", iat |-> 0, exp |-> 0]

\* A word of the Authorization header that is no JWT ("" is the empty word).
TextWord(t) ==
    [kind |-> "text", text |-> t, payload |-> NoPayload,
     sig |-> [key |-> "", over |-> NoPayload]]

\* A JWT: its payload and its HS256 signature, the MAC of the payload under a
\* key, modelled as the pair (key, signed payload).
Jwt(payload, key, over) ==
    [kind |-> "jwt", text |-> "", payload |-> payload,
     sig |-> [key |-> key, over |-> over]]

NoToken == TextWord("")

\* A response: no field but "status" is set in all of them.  "text" is a body
\* that is no JSON object of the gateway's (plain text, or an upstream's
\* payload) and "encoding" the Content-Encoding its bytes are sent in ("" is
\* none); the other fields are those of a JSON body.
NoResp ==
    [status |-> 0, error |-> "", text |-> "", encoding |-> "", health |-> "",
     timestamp |-> -1, version |-> "", errors |-> {}, access_token |-> NoToken,
     token_type |-> "", expires_in |-> 0, scope |-> "", message |-> "",
     messageId |-> "", requestId |-> ""]

\* What an upstream answers: its status, its payload and the Content-Encoding
\* of the payload, whether the payload's Content-Type is one the compression
\* middleware compresses, and whether its Content-Length header is below the
\* middleware's threshold.
NoUp ==
    [status |-> 0, text |-> "", encoding |-> "", compressible |-> FALSE,
     short |-> FALSE]

JsonError(code, msg) == [NoResp EXCEPT !.status = code, !.error = msg]

\* A request body: whether it parses, and its fields ("" is a missing or an
\* empty field).
EmptyBody ==
    [ok |-> TRUE, grant_type |-> "", client_id |-> "", client_secret |-> "",
     messageType |-> "", content |-> "", messageId |-> ""]
\* a body express.json() cannot parse
BadBody == [EmptyBody EXCEPT !.ok = FALSE]

\* "accept" is the Accept-Encoding header and "requestId" the X-Request-Id
\* header ("" is none)
NoInput ==
    [ip |-> "", method |-> "", path |-> <<>>, auth |-> <<>>, body |-> EmptyBody,
     accept |-> "", requestId |-> ""]

\* A request in the gateway: its input, where it stands (pc), what the
\* middleware attached to it (totalHits: the rate limiter's answer, user:
\* req.user, none or one), and a record of what happened to it: the middleware
\* that ran, the responses written (sent), the upstream calls made, the log
\* entries written, the time the chain ran for it (at), its place (seq) in
\* the caller's window (wstart), and what the upstream answered (up);
\* the headers set on res (headers) and those of the response as it went out
\* (sentHeaders); the Authorization header of the upstream request (outAuth),
\* whether the client's connection is gone and whether the upstream request
\* was aborted.
IdleReq ==
    [pc |-> "idle", in |-> NoInput, totalHits |-> 0, next |-> FALSE,
     user |-> {}, ran |-> {}, resp |-> NoResp, sent |-> 0, upstream |-> "",
     upstreamCalls |-> 0, logs |-> <<>>, at |-> 0, seq |-> 0, wstart |-> 0,
     up |-> NoUp, headers |-> {}, sentHeaders |-> {}, outAuth |-> <<>>,
     outMethod |-> "", outBody |-> EmptyBody,
     sinkDown |-> FALSE, lost |-> 0, sinkErrors |-> 0, lateWrites |-> 0,
     clientGone |-> FALSE, aborted |-> FALSE]

(***************************************************************************)
(* process.env.JWT_SECRET || 'fallback-secret' (lines 79 and 245): an      *)
(* unset and an empty variable are both falsy.                             *)
(***************************************************************************)
JwtSecret == IF env = "" THEN FallbackSecret ELSE env

\* Math.floor(Date.now() / 1000), the clock of jsonwebtoken
Seconds(t) == t \div 1000

(***************************************************************************)
(* jwt.sign({client_id, scope, iss}, secret, {expiresIn: '1h'})            *)
(***************************************************************************)
jwtSignLongLived(client_id, secret, t) ==
    LET p == [client_id |-> client_id, scope |-> TokenScope, iss |-> TokenIssuer,
              iat |-> Seconds(t), exp |-> Seconds(t) + 2 * expiresIn]
    IN  Jwt(p, secret, p)

jwtSignFixedClient(client_id, secret, t) ==
    LET p == [client_id |-> "gateway", scope |-> TokenScope, iss |-> TokenIssuer,
              iat |-> Seconds(t), exp |-> Seconds(t) + expiresIn]
    IN  Jwt(p, secret, p)

jwtSignEnvOnly(client_id, secret, t) ==
    LET p == [client_id |-> client_id, scope |-> TokenScope, iss |-> TokenIssuer,
              iat |-> Seconds(t), exp |-> Seconds(t) + expiresIn]
    IN  Jwt(p, env, p)

jwtSign(client_id, secret, t) ==
    LET p == [client_id |-> client_id, scope |-> TokenScope, iss |-> TokenIssuer,
              iat |-> Seconds(t), exp |-> Seconds(t) + expiresIn]
    IN  Jwt(p, secret, p)

(***************************************************************************)
(* jwt.verify(token, secret, callback): the error it passes, "" for none.  *)
(***************************************************************************)
jwtVerifyNoSignature(token, secret, t) ==
    IF token.kind # "jwt" THEN "jwt malformed"
    ELSE IF Seconds(t) >= token.payload.exp THEN "jwt expired"
    ELSE ""

jwtVerify(token, secret, t) ==
    IF token.kind # "jwt" THEN "jwt malformed"
    ELSE IF token.sig.key # secret \/ token.sig.over # token.payload
         THEN "invalid signature"
    ELSE IF Seconds(t) >= token.payload.exp THEN "jwt expired"
    ELSE ""

(***************************************************************************)
(* res.status(..).json(..) / res.send(..) / the proxy's writeHead: the      *)
(* response goes out with the headers set so far.  Once the headers of a   *)
(* response have gone out, res.json() fails in setHeader                   *)
(* (ERR_HTTP_HEADERS_SENT): the status line and the headers sent stay as   *)
(* they are and the late write is lost (lateWrites counts them).           *)
(***************************************************************************)
RespondAgain(r, resp) ==
    [r EXCEPT !.resp = resp, !.sentHeaders = r.headers,
              !.sent = @ + 1, !.next = FALSE]

Respond(r, resp) ==
    IF r.sent = 0
    THEN [r EXCEPT !.resp = resp, !.sentHeaders = r.headers,
                   !.sent = 1, !.next = FALSE]
    ELSE [r EXCEPT !.lateWrites = @ + 1, !.next = FALSE]

\* a middleware calls next()
CallNext(r) == [r EXCEPT !.next = TRUE]

\* logger.info(message, meta) / logger.error(message, meta): the entry keeps
\* the level, the message, the userId of meta and the names of meta's fields.
\* The call hands the entry to the transports (lines 23-28) and returns; when
\* the sink is down the entry handed over is lost (`lost` counts them).  The
\* logger has no 'error' listener and server.js keeps no count of failed
\* writes: nothing assigns `sinkErrors`.
Log(r, level, message, userId, fields) ==
    [r EXCEPT !.logs = Append(@, [level |-> level, message |-> message,
                                  userId |-> userId, fields |-> fields]),
              !.lost = IF r.sinkDown THEN @ + 1 ELSE @]

Ran(r, stage) == [r EXCEPT !.ran = @ \cup {stage}]

(***************************************************************************)
(* helmet({contentSecurityPolicy, hsts}): sets the security headers on res *)
(* and calls next(); whatever answers the request later sends them.        *)
(***************************************************************************)
SecurityHeaders ==
    {"Content-Security-Policy", "Strict-Transport-Security",
     "X-Content-Type-Options", "X-Frame-Options"}

helmetOff(r) == CallNext(Ran(r, "helmet"))

helmet(r) ==
    CallNext([Ran(r, "helmet") EXCEPT !.headers = @ \cup SecurityHeaders])

(***************************************************************************)
(* cors({..., methods: [...]}) with the default preflightContinue: false:  *)
(* an OPTIONS request is a preflight and is answered 204 by the cors       *)
(* middleware itself, before the rate limiter.                             *)
(***************************************************************************)
corsMiddleware(r) ==
    IF r.in.method = "OPTIONS"
    THEN Respond(Ran(r, "cors"), [NoResp EXCEPT !.status = 204])
    ELSE CallNext(Ran(r, "cors"))

(***************************************************************************)
(* The rate limiter's store, one window per key: a key unknown to the      *)
(* store or whose window has ended starts a new window at its next hit.    *)
(***************************************************************************)
NoHits == [totalHits |-> 0, resetTime |-> 0]

storeIncrementLossy(store, key, t) ==
    LET c == store[key]
        cur == IF c.resetTime <= t
               THEN [totalHits |-> 0, resetTime |-> t + windowMs] ELSE c
        racing == \E s \in Slots : reqs[s].pc = "limiter" /\ reqs[s].in.ip = key
    IN  [store EXCEPT ![key] =
            [cur EXCEPT !.totalHits = IF racing /\ @ > 0 THEN @ ELSE @ + 1]]

storeIncrementTwice(store, key, t) ==
    LET c == store[key]
        cur == IF c.resetTime <= t
               THEN [totalHits |-> 0, resetTime |-> t + windowMs] ELSE c
    IN  [store EXCEPT ![key] = [cur EXCEPT !.totalHits = @ + 2]]

storeIncrementSliding(store, key, t) ==
    LET c == store[key]
        cur == IF c.resetTime <= t
               THEN [totalHits |-> IF c.totalHits > max THEN c.totalHits - max ELSE 0,
                     resetTime |-> t + windowMs]
               ELSE c
    IN  [store EXCEPT ![key] = [cur EXCEPT !.totalHits = @ + 1]]

storeIncrementShared(store, key, t) ==
    [k \in DOMAIN store |->
        LET c == store[k]
            cur == IF c.resetTime <= t
                   THEN [totalHits |-> 0, resetTime |-> t + windowMs] ELSE c
        IN  [cur EXCEPT !.totalHits = @ + 1]]

storeIncrement(store, key, t) ==
    LET c == store[key]
        cur == IF c.resetTime <= t
               THEN [totalHits |-> 0, resetTime |-> t + windowMs] ELSE c
    IN  [store EXCEPT ![key] = [cur EXCEPT !.totalHits = @ + 1]]

(***************************************************************************)
(* The rate limiter after `await store.increment(key)`: over the limit it  *)
(* sends 429 with the message, as text; otherwise it calls next().         *)
(***************************************************************************)
limiterOffByOne(r) ==
    IF r.totalHits >= max
    THEN Respond(Ran(r, "limiter"),
                 [NoResp EXCEPT !.status = 429, !.text = RateLimitMessage])
    ELSE CallNext(Ran(r, "limiter"))

limiterNeverRejects(r) == CallNext(Ran(r, "limiter"))

limiter(r) ==
    IF r.totalHits > max
    THEN Respond(Ran(r, "limiter"),
                 [NoResp EXCEPT !.status = 429, !.text = RateLimitMessage])
    ELSE CallNext(Ran(r, "limiter"))

(***************************************************************************)
(* express.json() / express.urlencoded(): a body that does not parse is    *)
(* passed to next(err).                                                    *)
(***************************************************************************)
bodyParser(r) ==
    IF r.in.body.ok THEN CallNext(Ran(r, "json"))
    ELSE [Ran(r, "json") EXCEPT !.next = FALSE]

(***************************************************************************)
(* authenticateToken                                                       *)
(***************************************************************************)
\* authHeader && authHeader.split(' ')[1]; <<>> is the missing header
HeaderTokenBearerOnly(auth) ==
    IF Len(auth) >= 2 /\ auth[1] = TextWord("Bearer") THEN auth[2] ELSE NoToken

HeaderToken(auth) == IF Len(auth) >= 2 THEN auth[2] ELSE NoToken

\* !token: undefined or the empty string
Falsy(word) == word.kind = "text" /\ word.text = ""

authenticateNextOnError(r, t, secret) ==
    LET token == HeaderToken(r.in.auth)
        a == Ran(r, "auth")
    IN  IF Falsy(token)
        THEN Respond(a, JsonError(401, "Access token required"))
        ELSE IF jwtVerify(token, secret, t) # ""
             THEN CallNext(Log(Ran(a, "verify"), "error", "JWT verification failed", "", {"error"}))
             ELSE CallNext([Ran(a, "verify") EXCEPT !.user = {token.payload}])

authenticateNoTokenCheck(r, t, secret) ==
    LET token == HeaderToken(r.in.auth)
        a == Ran(r, "auth")
    IN  IF jwtVerify(token, secret, t) # ""
        THEN Respond(Log(Ran(a, "verify"), "error", "JWT verification failed", "", {"error"}),
                     JsonError(403, "Invalid or expired token"))
        ELSE CallNext([Ran(a, "verify") EXCEPT !.user = {token.payload}])

authenticateScopeCheck(r, t, secret) ==
    LET token == HeaderToken(r.in.auth)
        a == Ran(r, "auth")
    IN  IF Falsy(token)
        THEN Respond(a, JsonError(401, "Access token required"))
        ELSE IF jwtVerify(token, secret, t) # "" \/ token.payload.scope # TokenScope
             THEN Respond(Log(Ran(a, "verify"), "error", "JWT verification failed", "", {"error"}),
                          JsonError(403, "Invalid or expired token"))
             ELSE CallNext([Ran(a, "verify") EXCEPT !.user = {token.payload}])

authenticateRevocable(r, t, secret) ==
    LET token == HeaderToken(r.in.auth)
        a == Ran(r, "auth")
    IN  IF Falsy(token)
        THEN Respond(a, JsonError(401, "Access token required"))
        ELSE IF jwtVerify(token, secret, t) # "" \/ token \notin {x.tok : x \in wallet}
             THEN Respond(Log(Ran(a, "verify"), "error", "JWT verification failed", "", {"error"}),
                          JsonError(403, "Invalid or expired token"))
             ELSE CallNext([Ran(a, "verify") EXCEPT !.user = {token.payload}])

authenticateToken(r, t, secret) ==
    LET token == HeaderToken(r.in.auth)
        a == Ran(r, "auth")
    IN  IF Falsy(token)
        THEN Respond(a, JsonError(401, "Access token required"))
        ELSE IF jwtVerify(token, secret, t) # ""
             THEN Respond(Log(Ran(a, "verify"), "error", "JWT verification failed", "", {"error"}),
                          JsonError(403, "Invalid or expired token"))
             ELSE CallNext([Ran(a, "verify") EXCEPT !.user = {token.payload}])

(***************************************************************************)
(* auditLogger: userId is req.user?.id || 'anonymous'.                     *)
(***************************************************************************)
\* user.id of a decoded payload: undefined ("") when the payload has no id
UserId(user) ==
    IF user = {} THEN ""
    ELSE LET u == CHOOSE u \in user : TRUE
         IN  IF "id" \in DOMAIN u THEN u["id"] ELSE ""

auditLoggerSilent(r) == CallNext(Ran(r, "audit"))

auditLogger(r) ==
    LET id == UserId(r.user)
    IN  CallNext(Log(Ran(r, "audit"), "info", "API Access",
                     IF id = "" THEN "anonymous" ELSE id,
                     {"timestamp", "method", "url", "ip", "userAgent", "userId"}))

(***************************************************************************)
(* The routes in the order server.js registers them.  A "use" entry        *)
(* matches every method and every path under its mount point; a "get" or   *)
(* "post" entry matches its method and its exact path.  None of the        *)
(* handlers calls next() once it matched, so the first match decides.      *)
(***************************************************************************)
RouteTable ==
    << [kind |-> "get",  method |-> "GET",  path |-> <<"health">>,         handler |-> "health"],
       [kind |-> "use",  method |-> "",     path |-> <<"fhir">>,           handler |-> "fhir"],
       [kind |-> "use",  method |-> "",     path |-> <<"hl7">>,            handler |-> "hl7"],
       [kind |-> "post", method |-> "POST", path |-> <<"hl7", "message">>, handler |-> "hl7message"],
       [kind |-> "use",  method |-> "",     path |-> <<"epic">>,           handler |-> "epic"],
       [kind |-> "use",  method |-> "",     path |-> <<"audit">>,          handler |-> "audit"],
       [kind |-> "post", method |-> "POST", path |-> <<"oauth", "token">>, handler |-> "token"] >>

ProxyRoutes == {"fhir", "hl7", "epic", "audit"}

IsPrefix(p, path) == Len(p) <= Len(path) /\ SubSeq(path, 1, Len(p)) = p

MatchesAnyMethod(e, method, path) == IsPrefix(e.path, path)

Matches(e, method, path) ==
    IF e.kind = "use" THEN IsPrefix(e.path, path)
    ELSE e.method = method /\ e.path = path

\* the handler of the first matching route; "notfound" is app.use('*', ...)
Resolve(method, path) ==
    LET hit == {i \in 1..Len(RouteTable) : Matches(RouteTable[i], method, path)}
    IN  IF hit = {} THEN "notfound"
        ELSE RouteTable[CHOOSE i \in hit : \A j \in hit : i <= j].handler

(***************************************************************************)
(* app.get('/health')                                                      *)
(***************************************************************************)
healthNeedsToken(r, t) ==
    IF r.in.auth = <<>>
    THEN Respond(Ran(r, "health"), JsonError(401, "Access token required"))
    ELSE Respond(Ran(r, "health"),
                 [NoResp EXCEPT !.status = 200, !.health = "healthy",
                                !.timestamp = t, !.version = "1.0.0"])

healthHandler(r, t) ==
    Respond(Ran(r, "health"),
            [NoResp EXCEPT !.status = 200, !.health = "healthy",
                           !.timestamp = t, !.version = "1.0.0"])

(***************************************************************************)
(* createProxyMiddleware({target, onProxyReq, onError}): the request is    *)
(* sent to the upstream of the route; onProxyReq logs the access.          *)
(***************************************************************************)
ProxyLogMessage(h) ==
    CASE h = "fhir"  -> "FHIR API Access"
      [] h = "hl7"   -> "HL7 Processor Access"
      [] h = "epic"  -> "EPIC Connection Hub Access"
      [] h = "audit" -> "Audit Service Access"

ProxyErrorMessage(h) ==
    CASE h = "fhir"  -> "FHIR service temporarily unavailable"
      [] h = "hl7"   -> "HL7 processor service temporarily unavailable"
      [] h = "epic"  -> "EPIC connector service temporarily unavailable"
      [] h = "audit" -> "Audit service temporarily unavailable"

\* the `auth` option of the route's proxy ("" is none)
ProxyAuth(h) == IF h = "fhir" THEN "admin:admin123" ELSE ""

\* Buffer.from(auth).toString('base64')
Base64(text) ==
    CASE text = "admin:admin123" -> "YWRtaW46YWRtaW4xMjM="
      [] OTHER -> ""

(***************************************************************************)
(* The Authorization header of the upstream request.  The proxy copies the *)
(* inbound headers to the outgoing request and passes its `auth` option to *)
(* http.request, which computes a Basic Authorization header from it only  *)
(* when the request's headers have no Authorization yet.                   *)
(***************************************************************************)
outgoingAuthorization(auth, h) ==
    IF auth # <<>> THEN auth
    ELSE IF ProxyAuth(h) # "" THEN <<TextWord("Basic"), TextWord(Base64(ProxyAuth(h)))>>
    ELSE <<>>

(***************************************************************************)
(* The body of the upstream request: the proxy pipes the inbound request   *)
(* stream into it.  express.json() and express.urlencoded() (lines 67-68)  *)
(* have read that stream to its end when the request had a body of theirs  *)
(* (the bodies of this model are all JSON), and nothing writes req.body    *)
(* into the upstream request: no byte of the body is left to pipe.         *)
(***************************************************************************)
outgoingBody(r) ==
    IF "json" \in r.ran /\ r.in.body # EmptyBody THEN EmptyBody ELSE r.in.body

proxyMiddlewareCached(r, h) ==
    [Log(Ran(r, "proxy"), "info", ProxyLogMessage(h), UserId(r.user),
         {"endpoint", "method", "userId"}
             \cup (IF h = "fhir" THEN {"targetUrl"} ELSE {}))
        EXCEPT !.upstream = h,
               !.upstreamCalls = IF r.totalHits > 1 THEN @ ELSE @ + 1,
               !.outAuth = outgoingAuthorization(r.in.auth, h),
               !.outMethod = r.in.method, !.outBody = outgoingBody(r),
               !.next = FALSE]

proxyMiddleware(r, h) ==
    [Log(Ran(r, "proxy"), "info", ProxyLogMessage(h), UserId(r.user),
         {"endpoint", "method", "userId"}
             \cup (IF h = "fhir" THEN {"targetUrl"} ELSE {}))
        EXCEPT !.upstream = h, !.upstreamCalls = @ + 1,
               !.outAuth = outgoingAuthorization(r.in.auth, h),
               !.outMethod = r.in.method, !.outBody = outgoingBody(r),
               !.next = FALSE]

(***************************************************************************)
(* The client's connection closes while the upstream request is in flight: *)
(* req emits 'aborted' and the proxy aborts the upstream request; nothing  *)
(* is written to res and onError is not called.                            *)
(***************************************************************************)
clientAbortedLeak(r) == [r EXCEPT !.clientGone = TRUE]

clientAborted(r) == [r EXCEPT !.clientGone = TRUE, !.aborted = TRUE]

(***************************************************************************)
(* compression() (line 66) wraps res.write and res.end of every response.  *)
(* When the headers go out it leaves the body alone if the response        *)
(* already has a Content-Encoding, if its Content-Type is not              *)
(* compressible, if its Content-Length is below the threshold (1 kb), or   *)
(* if the request's Accept-Encoding names no encoding it knows; otherwise  *)
(* it sends the body in that encoding.  The gateway's own JSON bodies are  *)
(* all below the threshold.                                                *)
(***************************************************************************)
compression(accept, u) ==
    IF u.encoding # "" \/ ~u.compressible \/ u.short \/ accept = ""
    THEN u.encoding
    ELSE accept

(***************************************************************************)
(* The upstream's answer arrives: the proxy copies its status and headers  *)
(* to res and pipes its body into res, through compression.                *)
(***************************************************************************)
proxyResFixedStatus(r, u) ==
    Respond([Ran(r, "relay") EXCEPT !.up = u],
            [NoResp EXCEPT !.status = 200, !.text = u.text,
                           !.encoding = compression(r.in.accept, u)])

proxyRes(r, u) ==
    Respond([Ran(r, "relay") EXCEPT !.up = u],
            [NoResp EXCEPT !.status = u.status, !.text = u.text,
                           !.encoding = compression(r.in.accept, u)])

(***************************************************************************)
(* onError of the proxy of route h: the error is logged and answered 502.  *)
(***************************************************************************)
ProxyErrorLog(h) ==
    CASE h = "fhir"  -> "FHIR Proxy Error"
      [] h = "hl7"   -> "HL7 Proxy Error"
      [] h = "epic"  -> "EPIC Proxy Error"
      [] h = "audit" -> "Audit Proxy Error"

onErrorFhirOnly(r, h, message) ==
    Respond(Log(Ran(r, "onError"), "error", ProxyErrorLog(h), "", {"error", "url"}),
            IF h = "fhir"
            THEN [NoResp EXCEPT !.status = 502, !.error = ProxyErrorMessage(h),
                                !.message = message]
            ELSE JsonError(500, "Internal server error"))

onError(r, h, message) ==
    Respond(Log(Ran(r, "onError"), "error", ProxyErrorLog(h), "", {"error", "url"}),
            [NoResp EXCEPT !.status = 502, !.error = ProxyErrorMessage(h),
                           !.message = message])

\* app.use('/fhir', authenticateToken, auditLogger, createProxyMiddleware(..))
ProtectedRoute(r, t, secret, h) ==
    LET a == authenticateToken(r, t, secret)
    IN  IF a.next THEN proxyMiddleware(auditLogger(a), h) ELSE a

(***************************************************************************)
(* app.post('/hl7/message', [authenticateToken, auditLogger, body(..)..])  *)
(***************************************************************************)
Hl7Errors(body) ==
    {f \in {"messageType", "content"} : body[f] = ""}

legacyHl7Handler(r, t, secret) ==
    LET a == authenticateToken(r, t, secret)
        b == Ran(auditLogger(a), "hl7message")
    IN  IF ~a.next THEN a
        ELSE IF Hl7Errors(r.in.body) # {}
             THEN Respond(b, [NoResp EXCEPT !.status = 400,
                                            !.errors = Hl7Errors(r.in.body)])
             ELSE Respond(Log(b, "info", "HL7 Message Received", UserId(r.user),
                              {"messageType", "userId", "messageId"}),
                          [NoResp EXCEPT !.status = 202,
                                         !.message = "HL7 message queued for processing",
                                         !.messageId = IF r.in.body.messageId # ""
                                                       THEN r.in.body.messageId
                                                       ELSE "Date.now()"])

(***************************************************************************)
(* app.post('/oauth/token', [body('grant_type').equals(..), ...])          *)
(***************************************************************************)
TokenErrorsAnyGrant(body) ==
    {f \in {"client_id", "client_secret"} : body[f] = ""}

TokenErrors(body) ==
    (IF body.grant_type = "client_credentials" THEN {} ELSE {"grant_type"})
    \cup {f \in {"client_id", "client_secret"} : body[f] = ""}

tokenHandler(r, t, secret) ==
    LET errs == TokenErrors(r.in.body)
        a == Ran(r, "token")
    IN  IF errs # {}
        THEN Respond(a, [NoResp EXCEPT !.status = 400, !.errors = errs])
        ELSE Respond(Log(a, "info", "OAuth token issued", r.in.body.client_id,
                         {"client_id"}),
                     [NoResp EXCEPT !.status = 200,
                                    !.access_token = jwtSign(r.in.body.client_id, secret, t),
                                    !.token_type = "Bearer",
                                    !.expires_in = expires_in,
                                    !.scope = TokenScope])

\* the error handling middleware (line 260): the error's message and stack go
\* to the log; requestId is req.headers['x-request-id'] || Date.now().toString()
errorHandlerLeaks(r, t) ==
    Respond(Log(Ran(r, "error"), "error", "Unhandled error", "",
                {"error", "stack", "url", "method"}),
            [JsonError(500, "Internal server error") EXCEPT
                !.message = "Unexpected token in JSON",
                !.requestId = IF r.in.requestId # "" THEN r.in.requestId
                              ELSE ToString(t)])

errorHandler(r, t) ==
    Respond(Log(Ran(r, "error"), "error", "Unhandled error", "",
                {"error", "stack", "url", "method"}),
            [JsonError(500, "Internal server error") EXCEPT
                !.requestId = IF r.in.requestId # "" THEN r.in.requestId
                              ELSE ToString(t)])

\* app.use('*', ...)
notFound(r) == Respond(Ran(r, "notfound"), JsonError(404, "Endpoint not found"))

RouteHandler(r, t, secret) ==
    LET h == Resolve(r.in.method, r.in.path)
    IN  CASE h = "health"     -> healthHandler(r, t)
          [] h \in ProxyRoutes -> ProtectedRoute(r, t, secret, h)
          [] h = "hl7message" -> legacyHl7Handler(r, t, secret)
          [] h = "token"      -> tokenHandler(r, t, secret)
          [] OTHER            -> notFound(r)

(***************************************************************************)
(* The chain from the rate limiter's decision on: limiter, compression,    *)
(* express.json, express.urlencoded, the routes, the error handler.        *)
(***************************************************************************)
AfterIncrement(r, t, secret) ==
    LET l == limiter(r)
        b == bodyParser(l)
    IN  IF ~l.next THEN l
        ELSE IF ~b.next THEN errorHandler(b, t)
        ELSE RouteHandler(b, t, secret)

(***************************************************************************)
(* The callers' windows as the rate limiter's contract counts them: the    *)
(* window of a key starts with its first request, or with its first        *)
(* request after windowMs have passed since the window's start.  It        *)
(* records the requests that arrived in the window, those admitted, and    *)
(* whether more than the limit arrived in the window before it.            *)
(***************************************************************************)
NoWindow == [start |-> -1, arrivals |-> 0, admitted |-> 0, prevOver |-> FALSE]

WindowAtArrival(w, t) ==
    IF w.start = -1 \/ t >= w.start + windowMs
    THEN [start |-> t, arrivals |-> 1, admitted |-> 0, prevOver |-> w.arrivals > max]
    ELSE [w EXCEPT !.arrivals = @ + 1]

\* the rate limiter called next() for this request
Admitted(r) == "json" \in r.ran

(***************************************************************************)
(* The state after construction.                                           *)
(***************************************************************************)
Secrets == {"", "k1"}

Init ==
    /\ now = 0
    /\ env \in Secrets
    /\ hits = [ip \in Ips |-> NoHits]
    /\ reqs = [s \in Slots |-> IdleReq]
    /\ wallet = {}
    /\ win = [ip \in Ips |-> NoWindow]

(***************************************************************************)
(* A request arrives: helmet, cors, and the rate limiter up to its         *)
(* `await store.increment(key)`, with req.ip as the key.  `cap` bounds the *)
(* requests of one window.                                                 *)
(***************************************************************************)
Arrive(s, in, cap) ==
    /\ reqs[s].pc = "idle"
    /\ LET r0 == corsMiddleware(helmet([IdleReq EXCEPT !.in = in, !.at = now]))
           h == storeIncrement(hits, in.ip, now)
           w == WindowAtArrival(win[in.ip], now)
       IN  IF ~r0.next
           THEN /\ reqs' = [reqs EXCEPT ![s] = [r0 EXCEPT !.pc = "done"]]
                /\ UNCHANGED <<hits, win>>
           ELSE /\ h[in.ip].totalHits <= cap
                /\ hits' = h
                /\ win' = [win EXCEPT ![in.ip] = w]
                /\ reqs' = [reqs EXCEPT ![s] =
                              [r0 EXCEPT !.pc = "limiter",
                                         !.totalHits = h[in.ip].totalHits,
                                         !.seq = w.arrivals, !.wstart = w.start]]
    /\ UNCHANGED <<now, env, wallet>>

(***************************************************************************)
(* The rest of the chain, to the response or to the upstream call.  A      *)
(* caller keeps the token of a 200 response while its wallet has room.     *)
(***************************************************************************)
Dispatch(s, down) ==
    /\ reqs[s].pc = "limiter"
    /\ LET r == AfterIncrement([reqs[s] EXCEPT !.at = now, !.sinkDown = down],
                               now, JwtSecret)
           ip == r.in.ip
       IN  /\ reqs' = [reqs EXCEPT ![s] =
                         [r EXCEPT !.pc = IF r.sent = 0 /\ r.upstreamCalls > 0
                                          THEN "upstream" ELSE "done"]]
           /\ wallet' = IF r.resp.access_token # NoToken /\ Cardinality(wallet) < MaxWallet
                        THEN wallet \cup {[tok |-> r.resp.access_token, issuedAt |-> now,
                                           client_id |-> r.in.body.client_id]}
                        ELSE wallet
           /\ win' = IF Admitted(r) /\ win[ip].start = r.wstart
                     THEN [win EXCEPT ![ip].admitted = @ + 1]
                     ELSE win
    /\ UNCHANGED <<now, env, hits>>

\* the chain runs while the log sink works
Handle(s) == Dispatch(s, FALSE)

\* the chain runs while the writes of the log sink fail
HandleSinkDown(s) == Dispatch(s, TRUE)

\* the upstream answers, and the proxy relays its status and body
UpstreamCodes == {200, 404, 500}

\* answers with a short payload no client of the specification asks to encode
PlainResponses ==
    [status : UpstreamCodes, text : {"upstream body"}, encoding : {""},
     compressible : {TRUE}, short : {TRUE}]

UpstreamRespond(s, u) ==
    /\ reqs[s].pc = "upstream"
    /\ reqs' = [reqs EXCEPT ![s] = [proxyRes(reqs[s], u) EXCEPT !.pc = "done"]]
    /\ UNCHANGED <<now, env, hits, wallet, win>>

\* the upstream's status line and headers arrive and are relayed; its body
\* is piped to the client as it comes
UpstreamHeaders(s, u) ==
    /\ reqs[s].pc = "upstream"
    /\ reqs' = [reqs EXCEPT ![s] = [proxyRes(reqs[s], u) EXCEPT !.pc = "relaying"]]
    /\ UNCHANGED <<now, env, hits, wallet, win>>

\* the upstream's body ends
UpstreamEnd(s) ==
    /\ reqs[s].pc = "relaying"
    /\ reqs' = [reqs EXCEPT ![s].pc = "done"]
    /\ UNCHANGED <<now, env, hits, wallet, win>>

\* The upstream's connection breaks after its headers were relayed.  Whether
\* the proxy reports the break to onError depends on where node raises it
\* (on the upstream request or on the upstream response): both happen.
UpstreamBreak(s, reported) ==
    /\ reqs[s].pc = "relaying"
    /\ LET r == reqs[s]
           e == IF reported THEN onError(r, r.upstream, "socket hang up") ELSE r
       IN  reqs' = [reqs EXCEPT ![s] = [e EXCEPT !.pc = "done"]]
    /\ UNCHANGED <<now, env, hits, wallet, win>>

\* the addresses an upstream's base URL (FHIR_SERVER_URL, ...) may resolve to
UpstreamAddresses == {"172.18.0.5:8084", "10.0.0.7:9000"}

\* err.message of a refused connection: node names the address and the port
ConnectError(addr) ==
    CASE addr = "172.18.0.5:8084" -> "connect ECONNREFUSED 172.18.0.5:8084"
      [] addr = "10.0.0.7:9000"   -> "connect ECONNREFUSED 10.0.0.7:9000"

\* the upstream call fails: the connection to its address is refused
UpstreamFail(s, addr) ==
    /\ reqs[s].pc = "upstream"
    /\ reqs' = [reqs EXCEPT ![s] =
                  [onError(reqs[s], reqs[s].upstream, ConnectError(addr))
                     EXCEPT !.pc = "done"]]
    /\ UNCHANGED <<now, env, hits, wallet, win>>

\* the client disconnects before the upstream answered
ClientAbort(s) ==
    /\ reqs[s].pc = "upstream"
    /\ LET r == clientAborted(reqs[s])
       IN  reqs' = [reqs EXCEPT ![s] =
                      [r EXCEPT !.pc = IF r.aborted THEN "done" ELSE "upstream"]]
    /\ UNCHANGED <<now, env, hits, wallet, win>>

\* the response has gone out; the request is over
Complete(s) ==
    /\ reqs[s].pc = "done"
    /\ reqs' = [reqs EXCEPT ![s] = IdleReq]
    /\ UNCHANGED <<now, env, hits, wallet, win>>

\* a caller drops a token it kept
Forget(x) ==
    /\ x \in wallet
    /\ wallet' = wallet \ {x}
    /\ UNCHANGED <<now, env, hits, reqs, win>>

\* time passes
Tick(t) ==
    /\ t > now
    /\ t <= MaxNow
    /\ now' = t
    /\ UNCHANGED <<env, hits, reqs, wallet, win>>

(***************************************************************************)
(* The requests callers send.                                              *)
(***************************************************************************)
Bearer == TextWord("Bearer")
Basic == TextWord("Basic")
Garbage == TextWord("garbage")

OutsiderPayload ==
    [client_id |-> "mallory", scope |-> "admin", iss |-> TokenIssuer,
     iat |-> 0, exp |-> 1000000]

\* a token signed under a key of the attacker's
Forged == Jwt(OutsiderPayload, "attacker-key", OutsiderPayload)
\* a token signed under the fallback secret of server.js
Outsider == Jwt(OutsiderPayload, FallbackSecret, OutsiderPayload)
\* an issued token with a later expiry and its old signature
Tampered(tok) == Jwt([tok.payload EXCEPT !.exp = @ + expiresIn], tok.sig.key, tok.sig.over)
\* an issued token with another signature
Resigned(tok) == Jwt(tok.payload, "attacker-key", tok.payload)

Headers(w) ==
    {<<>>, <<Bearer>>, <<Bearer, TextWord("")>>, <<Bearer, Garbage>>,
     <<Bearer, Forged>>, <<Bearer, Outsider>>}
    \cup UNION {{<<Bearer, x.tok>>, <<Basic, x.tok>>, <<Bearer, Tampered(x.tok)>>,
                 <<Bearer, Resigned(x.tok)>>} : x \in w}

ValidHeaders(w) == {<<Bearer, x.tok>> : x \in w}

ProtectedPaths ==
    {<<"fhir", "Patient">>, <<"hl7", "message">>, <<"epic", "status">>,
     <<"audit", "events">>}

OtherPaths == {<<"unknown">>, <<"fhirx", "Patient">>, <<"health", "live">>}

TokenBodies ==
    {[EmptyBody EXCEPT !.grant_type = g, !.client_id = c, !.client_secret = x] :
        g \in {"client_credentials", "password", ""},
        c \in {"", "c1", "c2"},
        x \in {"", "s1"}}

\* well-formed requests
Inputs(ips, w) ==
    [ip : ips, method : {"GET"}, path : ProtectedPaths,
     auth : Headers(w), body : {EmptyBody}, accept : {""}, requestId : {""}]
    \cup [ip : ips, method : {"POST"}, path : {<<"hl7", "message">>},
          auth : Headers(w), body : {EmptyBody}, accept : {""}, requestId : {""}]
    \cup [ip : ips, method : {"GET", "POST"}, path : {<<"health">>},
          auth : {<<>>, <<Bearer, Garbage>>}, body : {EmptyBody}, accept : {""}, requestId : {""}]
    \cup [ip : ips, method : {"POST"}, path : {<<"oauth", "token">>},
          auth : {<<>>}, body : TokenBodies, accept : {""}, requestId : {""}]
    \cup [ip : ips, method : {"GET"}, path : {<<"oauth", "token">>},
          auth : {<<>>},
          body : {[EmptyBody EXCEPT !.grant_type = "client_credentials",
                                    !.client_id = "c1", !.client_secret = "s1"]},
          accept : {""}, requestId : {""}]
    \cup [ip : ips, method : {"GET", "POST"}, path : OtherPaths,
          auth : {<<>>} \cup ValidHeaders(w), body : {EmptyBody}, accept : {""}, requestId : {""}]

\* CORS preflights, and requests whose body does not parse
EdgeInputs(ips, w) ==
    [ip : ips, method : {"OPTIONS"}, path : {<<"fhir", "Patient">>, <<"health">>},
     auth : {<<>>}, body : {EmptyBody}, accept : {""}, requestId : {""}]
    \cup [ip : ips, method : {"POST"},
          path : {<<"fhir", "Patient">>, <<"oauth", "token">>, <<"unknown">>},
          auth : {<<>>} \cup ValidHeaders(w), body : {BadBody}, accept : {""},
          requestId : {"", "rid-1"}]
    \cup [ip : ips, method : {"GET"}, path : {<<"health">>},
          auth : {<<>>}, body : {BadBody}, accept : {""},
          requestId : {"", "rid-1"}]

(***************************************************************************)
(* The gateway serving one caller, one request at a time, within one       *)
(* window of the rate limiter.                                             *)
(***************************************************************************)
Next ==
    \/ \E in \in Inputs({"ip1"}, wallet) : Arrive("r1", in, max + MaxOver)
    \/ Handle("r1")
    \/ \E u \in PlainResponses : UpstreamRespond("r1", u)
    \/ UpstreamFail("r1", "172.18.0.5:8084")
    \/ Complete("r1")
    \/ \E x \in wallet : Forget(x)

Spec == Init /\ [][Next]_vars

(***************************************************************************)
(* The same, with the preflights and the bodies that do not parse.         *)
(***************************************************************************)
NextEdge ==
    \/ \E in \in Inputs({"ip1"}, wallet) \cup EdgeInputs({"ip1"}, wallet) :
          Arrive("r1", in, max + MaxOver)
    \/ Handle("r1")
    \/ \E u \in PlainResponses : UpstreamRespond("r1", u)
    \/ UpstreamFail("r1", "172.18.0.5:8084")
    \/ Complete("r1")
    \/ \E x \in wallet : Forget(x)

SpecEdge == Init /\ [][NextEdge]_vars

(***************************************************************************)
(* The rate limiter under concurrent requests of one caller, over several  *)
(* windows.  Two requests are in the gateway at a time and the second may  *)
(* overtake the first between its `await store.increment` and the          *)
(* decision (the slots are interchangeable: r2 is taken only while r1 is   *)
(* busy).  A response is taken off before the next request arrives, and    *)
(* the clock advances between requests, to the last millisecond of the     *)
(* caller's window and to its end.                                         *)
(***************************************************************************)
LimiterInputs(ips) ==
    [ip : ips, method : {"GET"}, path : {<<"health">>},
     auth : {<<>>}, body : {EmptyBody}, accept : {""}, requestId : {""}]

InitLimiter == Init /\ env = ""

NextLimiter ==
    \/ /\ \A s \in Slots : reqs[s].pc # "done"
       /\ \E s \in Slots, in \in LimiterInputs({"ip1"}) :
             /\ s = "r2" => reqs["r1"].pc # "idle"
             /\ Arrive(s, in, max + MaxOver)
    \/ \E s \in Slots : Handle(s)
    \/ \E s \in Slots : Complete(s)
    \/ /\ \A s \in Slots : reqs[s].pc = "idle"
       /\ \E t \in {hits["ip1"].resetTime - 1, hits["ip1"].resetTime} :
             t <= MaxWindows * windowMs /\ Tick(t)

SpecLimiter == InitLimiter /\ [][NextLimiter]_vars

(***************************************************************************)
(* Two callers: ip1 goes past its limit while ip2 sends a few requests,    *)
(* before and after the end of either caller's window.                     *)
(***************************************************************************)
NextKeys ==
    \/ \E in \in LimiterInputs({"ip1"}) : Arrive("r1", in, max + MaxOver)
    \/ \E in \in LimiterInputs({"ip2"}) : Arrive("r1", in, MaxHitsOther)
    \/ Handle("r1")
    \/ Complete("r1")
    \/ /\ reqs["r1"].pc = "idle"
       /\ \E ip \in Ips : hits[ip].resetTime <= MaxWindows * windowMs
                            /\ Tick(hits[ip].resetTime)

SpecKeys == InitLimiter /\ [][NextKeys]_vars

(***************************************************************************)
(* Token lifetimes: one caller obtains tokens and presents them while the  *)
(* clock advances to the instants around each kept token's expiry, to the  *)
(* end of the caller's window, and off the full second (not between a      *)
(* request's `await store.increment` and its continuation, which the event *)
(* loop runs at once).                                                     *)
(***************************************************************************)
TimeInputs(ips, w) ==
    [ip : ips, method : {"POST"}, path : {<<"oauth", "token">>}, auth : {<<>>},
     body : {[EmptyBody EXCEPT !.grant_type = "client_credentials",
                               !.client_id = c, !.client_secret = "s1"] :
                 c \in {"c1", "c2"}},
          accept : {""}, requestId : {""}]
    \cup [ip : ips, method : {"GET"}, path : ProtectedPaths,
          auth : UNION {{<<Bearer, x.tok>>, <<Bearer, Tampered(x.tok)>>} : x \in w},
          body : {EmptyBody}, accept : {""}, requestId : {""}]

TimeEvents ==
    {hits["ip1"].resetTime}
    \cup (IF now % 1000 = 0 THEN {now + 400} ELSE {})
    \cup UNION {{x.issuedAt + (expiresIn - 1) * 1000,
                 x.tok.payload.exp * 1000 - 1,
                 x.tok.payload.exp * 1000,
                 x.issuedAt + (expiresIn + 1) * 1000} : x \in wallet}

NextTime ==
    \/ \E in \in TimeInputs({"ip1"}, wallet) : Arrive("r1", in, MaxHitsTime)
    \/ Handle("r1")
    \/ \E u \in {v \in PlainResponses : v.status = 200} : UpstreamRespond("r1", u)
    \/ Complete("r1")
    \/ \E x \in wallet : Forget(x)
    \/ reqs["r1"].pc # "limiter" /\ \E t \in TimeEvents : Tick(t)

SpecTime == Init /\ [][NextTime]_vars

(***************************************************************************)
(* The proxy: one caller obtains a token and sends requests to the proxied *)
(* prefixes, to POST /hl7/message and to paths no route matches, with and  *)
(* without an Accept-Encoding header; the upstream answers with any        *)
(* status, encoded or not, compressible or not, short or long, or the      *)
(* connection to it fails, or it stays silent.                             *)
(***************************************************************************)
ClientBody ==
    [EmptyBody EXCEPT !.grant_type = "client_credentials",
                      !.client_id = "c1", !.client_secret = "s1"]

Hl7Bodies ==
    {[EmptyBody EXCEPT !.messageType = m, !.content = c, !.messageId = i] :
        m \in {"", "ADT"}, c \in {"", "MSH|^~"}, i \in {"", "m1"}}

UpstreamResponses ==
    [status : UpstreamCodes, text : {"upstream body"}, encoding : {"", "gzip"},
     compressible : BOOLEAN, short : BOOLEAN]

ProxyInputs(ips, w) ==
    [ip : ips, method : {"POST"}, path : {<<"oauth", "token">>}, auth : {<<>>},
     body : {ClientBody, [ClientBody EXCEPT !.grant_type = "password"],
             [ClientBody EXCEPT !.client_secret = ""]},
     accept : {""}, requestId : {""}]
    \cup [ip : ips, method : {"GET"}, path : ProtectedPaths,
          auth : {<<>>, <<Bearer, Garbage>>, <<Bearer, Outsider>>} \cup ValidHeaders(w),
          body : {EmptyBody}, accept : {"", "gzip"}, requestId : {""}]
    \cup [ip : ips, method : {"POST"}, path : {<<"hl7", "message">>},
          auth : {<<>>} \cup ValidHeaders(w), body : Hl7Bodies, accept : {""}, requestId : {""}]
    \cup [ip : ips, method : {"GET", "POST"},
          path : OtherPaths \cup {<<"hl7x">>},
          auth : {<<>>} \cup ValidHeaders(w), body : {EmptyBody}, accept : {""}, requestId : {""}]
    \cup [ip : ips, method : {"GET"}, path : {<<"oauth", "token">>},
          auth : {<<>>}, body : {EmptyBody}, accept : {""}, requestId : {""}]
    \cup [ip : ips, method : {"POST"}, path : {<<"unknown">>},
          auth : {<<>>} \cup ValidHeaders(w), body : {BadBody}, accept : {""},
          requestId : {"", "rid-1"}]

NextProxy ==
    \/ \E in \in ProxyInputs({"ip1"}, wallet) : Arrive("r1", in, MaxHitsProxy)
    \/ Handle("r1")
    \/ HandleSinkDown("r1")
    \/ \E u \in UpstreamResponses : UpstreamRespond("r1", u)
    \/ \E a \in UpstreamAddresses : UpstreamFail("r1", a)
    \/ ClientAbort("r1")
    \/ Complete("r1")
    \/ \E x \in wallet : Forget(x)

SpecProxy == Init /\ [][NextProxy]_vars

(***************************************************************************)
(* Responses in pieces: one caller goes through every stage that answers   *)
(* (429 past the limit, 400, 401, 403, 404, 500, the relay, 502), and an    *)
(* upstream may send its headers first and end or break afterwards.        *)
(***************************************************************************)
StreamInputs(ips, w) ==
    [ip : ips, method : {"POST"}, path : {<<"oauth", "token">>}, auth : {<<>>},
     body : {ClientBody, [ClientBody EXCEPT !.client_secret = ""]},
     accept : {""}, requestId : {""}]
    \cup [ip : ips, method : {"GET"}, path : {<<"fhir", "Patient">>},
          auth : {<<>>, <<Bearer, Garbage>>} \cup ValidHeaders(w),
          body : {EmptyBody}, accept : {""}, requestId : {""}]
    \cup [ip : ips, method : {"POST"}, path : {<<"unknown">>}, auth : {<<>>},
          body : {EmptyBody, BadBody}, accept : {""}, requestId : {""}]

NextStream ==
    \/ \E in \in StreamInputs({"ip1"}, wallet) : Arrive("r1", in, max + MaxOver)
    \/ Handle("r1")
    \/ \E u \in PlainResponses : UpstreamRespond("r1", u)
    \/ \E u \in PlainResponses : UpstreamHeaders("r1", u)
    \/ UpstreamEnd("r1")
    \/ \E reported \in BOOLEAN : UpstreamBreak("r1", reported)
    \/ \E a \in UpstreamAddresses : UpstreamFail("r1", a)
    \/ ClientAbort("r1")
    \/ Complete("r1")

SpecStream == Init /\ [][NextStream]_vars

\* The event loop runs every callback that is ready: the chain of a request
\* that arrived, and the end of a response.  Nothing makes an upstream answer.
SpecProxyLive ==
    SpecProxy /\ WF_vars(Handle("r1")) /\ WF_vars(Complete("r1"))

(***************************************************************************)
(* Properties.                                                             *)
(***************************************************************************)
\* the path lies under one of the proxied prefixes
ProtectedPath(path) ==
    Len(path) >= 1 /\ path[1] \in {"fhir", "hl7", "epic", "audit"}

\* the token is one the gateway's key signed and is not expired at time t
Genuine(tok, t) ==
    /\ tok.kind = "jwt"
    /\ tok.sig = [key |-> JwtSecret, over |-> tok.payload]
    /\ Seconds(t) < tok.payload.exp

\* the header carries a token, and the token is not genuine at time t
FailsVerification(auth, t) ==
    ~Falsy(HeaderToken(auth)) /\ ~Genuine(HeaderToken(auth), t)

\* the request is among the first `max` of its caller's window
WithinLimit(r) == r.seq >= 1 /\ r.seq <= max

TooManyRequests == [NoResp EXCEPT !.status = 429, !.text = RateLimitMessage]

\* C1: a request is forwarded to an upstream only if its path lies under
\* /fhir, /hl7, /epic or /audit and its Authorization header carries a token
\* that passed the Auth Gate (signed by the gateway's key, unexpired, attached
\* as the principal); no unauthenticated request reaches an upstream.
C1_ForwardedOnlyIfAuthenticated ==
    \A s \in Slots :
        LET r == reqs[s]
        IN  r.upstreamCalls > 0 =>
                /\ ProtectedPath(r.in.path)
                /\ Genuine(HeaderToken(r.in.auth), r.at)
                /\ r.user = {HeaderToken(r.in.auth).payload}
                /\ "verify" \in r.ran

C1_Witness ==
    \E s \in Slots : reqs[s].pc = "upstream" /\ reqs[s].upstreamCalls = 1

\* C2 as stated: every request to a protected route without an Authorization
\* header is answered 401 {error: 'Access token required'} and causes no
\* upstream call.
C2_Original ==
    \A s \in Slots :
        LET r == reqs[s]
        IN  (r.pc = "done" /\ ProtectedPath(r.in.path) /\ r.in.auth = <<>>) =>
                /\ r.resp = JsonError(401, "Access token required")
                /\ r.upstreamCalls = 0

\* C2 as amended: a request to a protected route without an Authorization
\* header causes no upstream call, and it is answered 401 {error: 'Access
\* token required'} when it is among the first 100 of its caller's window and
\* its body parses (it then reaches the Auth Gate).
C2_MissingTokenWithinLimit ==
    \A s \in Slots :
        LET r == reqs[s]
        IN  (r.pc # "idle" /\ ProtectedPath(r.in.path) /\ r.in.auth = <<>>) =>
                /\ r.upstreamCalls = 0
                /\ (r.pc = "done" /\ WithinLimit(r) /\ r.in.body.ok) =>
                        /\ r.resp = JsonError(401, "Access token required")
                        /\ "auth" \in r.ran

C2_Witness ==
    \E s \in Slots :
        /\ reqs[s].pc = "done"
        /\ reqs[s].in.path = <<"fhir", "Patient">>
        /\ reqs[s].in.auth = <<>>
        /\ reqs[s].resp.status = 401

\* C3 as stated: every request to a protected route whose bearer token fails
\* verification is answered 403 {error: 'Invalid or expired token'}, gets no
\* principal and is not forwarded.
C3_Original ==
    \A s \in Slots :
        LET r == reqs[s]
        IN  (r.pc = "done" /\ ProtectedPath(r.in.path)
             /\ FailsVerification(r.in.auth, r.at)) =>
                /\ r.resp = JsonError(403, "Invalid or expired token")
                /\ r.user = {}
                /\ r.upstreamCalls = 0

\* C3 as amended: a request to a protected route whose token fails
\* verification (another signature, a changed payload, expired, not a JWT)
\* gets no principal and is never forwarded, and it is answered 403 {error:
\* 'Invalid or expired token'} when it is among the first 100 of its caller's
\* window and its body parses.
C3_InvalidTokenWithinLimit ==
    \A s \in Slots :
        LET r == reqs[s]
        IN  (r.pc # "idle" /\ ProtectedPath(r.in.path)
             /\ FailsVerification(r.in.auth, r.at)) =>
                /\ r.user = {}
                /\ r.upstreamCalls = 0
                /\ (r.pc = "done" /\ WithinLimit(r) /\ r.in.body.ok) =>
                        r.resp = JsonError(403, "Invalid or expired token")

C3_Witness ==
    \E s \in Slots, x \in wallet :
        /\ reqs[s].pc = "done"
        /\ ProtectedPath(reqs[s].in.path)
        /\ reqs[s].in.auth = <<Bearer, Resigned(x.tok)>>
        /\ reqs[s].resp.status = 403

\* C4: a token issued at time t is accepted by the Auth Gate whenever it is
\* verified up to t + 3599 s and rejected (403) whenever it is verified from
\* t + 3601 s on ...
C4_Lifetime ==
    \A s \in Slots, x \in wallet :
        LET r == reqs[s]
        IN  (r.pc \in {"upstream", "done"} /\ "verify" \in r.ran
             /\ r.in.auth = <<Bearer, x.tok>>) =>
                /\ r.at <= x.issuedAt + 3599 * 1000 =>
                        r.user = {x.tok.payload} /\ r.upstreamCalls = 1
                /\ r.at >= x.issuedAt + 3601 * 1000 =>
                        /\ r.user = {} /\ r.upstreamCalls = 0
                        /\ r.resp = JsonError(403, "Invalid or expired token")

\* ... and once the gate rejects a token as expired, it rejects it at every
\* later time.
C4_NoRevival ==
    [][\A x \in wallet :
          jwtVerify(x.tok, JwtSecret, now) = "jwt expired"
              => jwtVerify(x.tok, JwtSecret, now') = "jwt expired"]_vars

\* C4: a token issued at time t is accepted by the Auth Gate at every
\* verification up to t + 3599 s, is rejected with 403 at every verification
\* from t + 3601 s on, and once rejected as expired is never accepted again
\* at a later time.
C4_TokenLifetime == []C4_Lifetime /\ C4_NoRevival

C4_Witness ==
    \E s \in Slots, x \in wallet :
        /\ x.issuedAt % 1000 # 0
        /\ reqs[s].pc = "done"
        /\ reqs[s].in.auth = <<Bearer, x.tok>>
        /\ reqs[s].at = x.issuedAt + 3601 * 1000
        /\ reqs[s].resp.status = 403

\* C5: of the requests of one caller in one window the first 100 are
\* admitted, the 101st and every later one is answered 429, and the first
\* request after the window has elapsed (the first of the next window) is
\* admitted again.
C5_FixedWindow ==
    \A s \in Slots :
        LET r == reqs[s]
        IN  r.pc = "done" =>
                IF r.seq <= max
                THEN Admitted(r) /\ r.resp.status # 429
                ELSE ~Admitted(r) /\ r.resp = TooManyRequests

C5_Witness ==
    \E s \in Slots :
        LET r == reqs[s]
        IN  /\ r.pc = "done"
            /\ r.seq = 1
            /\ win[r.in.ip].start = r.wstart
            /\ win[r.in.ip].prevOver
            /\ r.resp.status = 200

\* C6: under every interleaving of concurrent requests of one caller no
\* increment of the caller's counter is lost (the counter is the number of
\* requests that arrived in the window), and the requests admitted in one
\* window never exceed the limit.
C6_NoLostIncrement ==
    \A ip \in Ips :
        /\ hits[ip].totalHits = win[ip].arrivals
        /\ win[ip].admitted <= max

C6_Witness ==
    /\ reqs["r1"].pc = "limiter"
    /\ reqs["r2"].pc = "limiter"
    /\ reqs["r1"].in.ip = reqs["r2"].in.ip
    /\ {reqs["r1"].totalHits, reqs["r2"].totalHits} = {max, max + 1}

IsHealth(r) == r.in.method = "GET" /\ r.in.path = <<"health">>

\* C8 as stated: every GET /health is answered 200 {status: 'healthy', ...},
\* after any earlier requests and in any state of the gateway.
C8_Original ==
    \A s \in Slots :
        LET r == reqs[s]
        IN  (r.pc = "done" /\ IsHealth(r)) =>
                r.resp.status = 200 /\ r.resp.health = "healthy"

\* C8 as amended: every GET /health that is among the first 100 requests of
\* its caller's window and whose body, if any, parses is answered 200
\* {status: 'healthy', timestamp, version}, with or without a token, without
\* token verification and without an upstream call.
C8_HealthWithinLimit ==
    \A s \in Slots :
        LET r == reqs[s]
        IN  (r.pc = "done" /\ IsHealth(r) /\ WithinLimit(r) /\ r.in.body.ok) =>
                /\ r.resp = [NoResp EXCEPT !.status = 200, !.health = "healthy",
                                           !.timestamp = r.at, !.version = "1.0.0"]
                /\ r.ran \cap {"auth", "verify", "proxy"} = {}
                /\ r.upstreamCalls = 0

C8_Witness ==
    \E s \in Slots :
        /\ reqs[s].pc = "done"
        /\ IsHealth(reqs[s])
        /\ reqs[s].in.auth = <<>>
        /\ reqs[s].seq = max
        /\ reqs[s].resp.status = 200

IsTokenRequest(r) == r.in.method = "POST" /\ r.in.path = <<"oauth", "token">>

WellFormed(body) ==
    /\ body.ok
    /\ body.grant_type = "client_credentials"
    /\ body.client_id # ""
    /\ body.client_secret # ""

\* C9: a POST /oauth/token whose grant_type is not 'client_credentials', or
\* whose client_id or client_secret is missing or empty (or whose body does
\* not parse), gets an error and never a token: the token route answers it
\* 400 with the offending fields, unless an earlier stage answered it (429
\* over the limit, 500 for a body that does not parse).
C9_NoTokenForMalformedRequest ==
    \A s \in Slots :
        LET r == reqs[s]
        IN  (r.pc = "done" /\ IsTokenRequest(r) /\ ~WellFormed(r.in.body)) =>
                /\ r.resp.access_token = NoToken
                /\ r.resp.status \in {400, 429, 500}
                /\ \A i \in 1..Len(r.logs) : r.logs[i].message # "OAuth token issued"
                /\ (WithinLimit(r) /\ r.in.body.ok) =>
                        /\ r.resp.status = 400
                        /\ r.resp.errors # {}
                        /\ "grant_type" \in r.resp.errors
                              <=> r.in.body.grant_type # "client_credentials"

C9_Witness ==
    \E s \in Slots :
        /\ reqs[s].pc = "done"
        /\ IsTokenRequest(reqs[s])
        /\ reqs[s].in.body.grant_type = "password"
        /\ reqs[s].in.body.client_id = "c1"
        /\ reqs[s].in.body.client_secret = "s1"
        /\ reqs[s].resp.status = 400

\* the response is 200 with a token signed by the gateway's key for the
\* presented client_id, with the fixed scope, issuer, token type and lifetime
IssuedFor(r) ==
    LET tok == r.resp.access_token
    IN  /\ r.resp.status = 200
        /\ r.resp.token_type = "Bearer"
        /\ r.resp.expires_in = 3600
        /\ r.resp.scope = "fhir:read fhir:write hl7:process"
        /\ tok.kind = "jwt"
        /\ tok.sig = [key |-> JwtSecret, over |-> tok.payload]
        /\ tok.payload.client_id = r.in.body.client_id
        /\ tok.payload.scope = "fhir:read fhir:write hl7:process"
        /\ tok.payload.iss = "epic-ehr-gateway"
        /\ tok.payload.exp = tok.payload.iat + 3600

\* C10 as stated: every POST /oauth/token with grant_type
\* 'client_credentials' and non-empty client_id and client_secret is answered
\* 200 with a signed token for that client_id.
C10_Original ==
    \A s \in Slots :
        LET r == reqs[s]
        IN  (r.pc = "done" /\ IsTokenRequest(r) /\ WellFormed(r.in.body)) =>
                IssuedFor(r)

\* C10 as amended: every such request that is among the first 100 of its
\* caller's window is answered 200 with a signed token whose client_id is the
\* presented one, with the fixed scope, issuer 'epic-ehr-gateway', token_type
\* 'Bearer' and expires_in 3600, whatever the secret.
C10_TokenIssuedWithinLimit ==
    \A s \in Slots :
        LET r == reqs[s]
        IN  (r.pc = "done" /\ IsTokenRequest(r) /\ WellFormed(r.in.body)
             /\ WithinLimit(r)) =>
                IssuedFor(r)

C10_Witness ==
    \E s \in Slots :
        /\ reqs[s].pc = "done"
        /\ IsTokenRequest(reqs[s])
        /\ reqs[s].in.body.client_id = "c2"
        /\ reqs[s].resp.status = 200
        /\ reqs[s].resp.access_token.payload.client_id = "c2"

\* the upstream of the request answered and the proxy relayed the answer
Relayed(r) == r.pc = "done" /\ "relay" \in r.ran

\* the compression middleware encodes the body of this answer for this client
Compresses(r) ==
    /\ r.in.accept # ""
    /\ r.up.encoding = "" /\ r.up.compressible /\ ~r.up.short

\* C11 as stated: for every authenticated proxied request whose upstream
\* responds, the gateway's response has exactly the upstream's status code
\* and exactly the upstream's body, byte for byte (same payload in the same
\* encoding); the gateway never rewrites either.
C11_Original ==
    \A s \in Slots :
        LET r == reqs[s]
        IN  Relayed(r) =>
                /\ r.resp.status = r.up.status
                /\ r.resp.text = r.up.text
                /\ r.resp.encoding = r.up.encoding

\* C11, amended: for every authenticated proxied request whose upstream
\* responds, the gateway's response has exactly the upstream's status code
\* and carries the upstream's payload, unchanged and in the upstream's
\* encoding, except that an unencoded, compressible payload not known to be
\* below the compression threshold is sent in the encoding the client's
\* Accept-Encoding asks for; nothing else of the response is the gateway's.
C11_RelayedUpToContentEncoding ==
    \A s \in Slots :
        LET r == reqs[s]
        IN  Relayed(r) =>
                /\ r.user # {} /\ r.upstreamCalls = 1 /\ r.sent = 1
                /\ r.resp =
                      [NoResp EXCEPT
                          !.status = r.up.status,
                          !.text = r.up.text,
                          !.encoding = IF Compresses(r) THEN r.in.accept
                                       ELSE r.up.encoding]

\* an upstream's 404 with a long unencoded JSON payload, relayed gzipped
C11_Witness ==
    \E s \in Slots :
        LET r == reqs[s]
        IN  /\ Relayed(r)
            /\ r.up.status = 404 /\ r.resp.status = 404
            /\ r.up.encoding = "" /\ r.resp.encoding = "gzip"
            /\ r.resp.text = "upstream body"

\* the connection to the request's upstream failed and onError answered
Unavailable(r) == r.pc = "done" /\ "onError" \in r.ran

\* C12: every authenticated proxied request whose upstream connection fails
\* is answered 502 with a JSON body {error, message}: the error names the
\* unavailable service of the request's prefix (/fhir, /hl7, /epic, /audit),
\* the message is the connection error's.
C12_UpstreamUnavailable ==
    \A s \in Slots :
        LET r == reqs[s]
        IN  Unavailable(r) =>
                /\ ProtectedPath(r.in.path)
                /\ r.user # {} /\ r.upstreamCalls = 1 /\ r.sent = 1
                /\ r.resp = [NoResp EXCEPT
                                !.status = 502,
                                !.error = ProxyErrorMessage(r.in.path[1]),
                                !.message = r.resp.message]
                /\ r.resp.message # ""

\* a request under /audit whose upstream is down, answered 502
C12_Witness ==
    \E s \in Slots :
        LET r == reqs[s]
        IN  /\ Unavailable(r)
            /\ r.in.path[1] = "audit"
            /\ r.resp.status = 502
            /\ r.resp.error = "Audit service temporarily unavailable"

\* the audit records of a request: the 'API Access' entries of auditLogger
AuditRecords(r) == {i \in 1..Len(r.logs) : r.logs[i].message = "API Access"}

\* C13 as stated: a proxied request to an unreachable upstream produces
\* exactly one audit record, and that record carries the outcome of the
\* dispatch (upstream_unavailable).
C13_Original ==
    \A s \in Slots :
        LET r == reqs[s]
        IN  Unavailable(r) =>
                /\ Cardinality(AuditRecords(r)) = 1
                /\ \A i \in AuditRecords(r) : "outcome" \in r.logs[i].fields

\* C14 as stated: every proxied request that waits for its upstream is
\* eventually answered; when the upstream never responds, by the gateway's
\* Gateway Timeout (504) after its finite timeout.  The gateway never holds
\* the request open indefinitely.
C14_Original ==
    \A s \in Slots :
        (reqs[s].pc = "upstream") ~>
            (reqs[s].pc = "done" /\ reqs[s].sent = 1)

\* the request passed the Auth Gate
PassedAuth(r) == r.pc \in {"upstream", "done"} /\ r.user # {}

\* C15: every request that passes the Auth Gate has exactly one 'API Access'
\* entry of the Audit Logger: it is written after the token was verified and
\* before the proxy sends the upstream request (and logs it), and it is still
\* the only one after the upstream answered or failed.
C15_AuditedOnce ==
    \A s \in Slots :
        LET r == reqs[s]
        IN  PassedAuth(r) =>
                /\ {"verify", "audit"} \subseteq r.ran
                /\ Cardinality(AuditRecords(r)) = 1
                /\ r.upstreamCalls = 1
                /\ \A i \in AuditRecords(r) :
                      /\ r.logs[i].level = "info"
                      /\ \A j \in 1..Len(r.logs) :
                            r.logs[j].message \in
                                {ProxyLogMessage(h) : h \in ProxyRoutes}
                                \cup {ProxyErrorLog(h) : h \in ProxyRoutes}
                            => i < j

\* an audited request whose dispatch failed afterwards
C15_Witness ==
    \E s \in Slots :
        LET r == reqs[s]
        IN  /\ PassedAuth(r) /\ Unavailable(r)
            /\ Len(r.logs) = 3
            /\ r.logs[1].message = "API Access"
            /\ r.logs[3].message = "FHIR Proxy Error"

\* the gateway rejected the request: rate-limited, missing or invalid token,
\* validation failure, unmatched route
Rejected(r) == r.pc = "done" /\ r.resp.status \in {429, 401, 403, 400, 404}

\* C16 as stated: every rejected request (429, 401, 403, 400, 404) still
\* produces exactly one audit record noting the rejection; no rejection goes
\* unrecorded.
C16_Original ==
    \A s \in Slots :
        LET r == reqs[s]
        IN  Rejected(r) /\ "relay" \notin r.ran => Len(r.logs) = 1

\* the token route handled the request: an issuance attempt
IssuanceAttempt(r) == r.pc = "done" /\ "token" \in r.ran

\* C17 as stated: every token issuance attempt at POST /oauth/token emits
\* exactly one audit entry, whether a token is returned (200) or the attempt
\* is rejected (400).
C17_Original ==
    \A s \in Slots :
        LET r == reqs[s]
        IN  IssuanceAttempt(r) =>
                /\ r.resp.status \in {200, 400}
                /\ Len(r.logs) = 1

\* an admitted POST /hl7/message with a token the Auth Gate accepts
AuthenticatedHl7Message(r) ==
    /\ r.pc \in {"upstream", "done"}
    /\ r.in.method = "POST" /\ r.in.path = <<"hl7", "message">>
    /\ r.in.body.ok /\ WithinLimit(r)
    /\ Genuine(HeaderToken(r.in.auth), r.at)

\* C18 as stated: a POST /hl7/message with a valid bearer token and
\* non-empty messageType and content is answered by the gateway itself with
\* 202 {message, messageId}, the messageId that of the request when it has
\* one: the /hl7/message route takes precedence over the /hl7 proxy, so the
\* request is not forwarded.
C18_Original ==
    \A s \in Slots :
        LET r == reqs[s]
        IN  AuthenticatedHl7Message(r) /\ Hl7Errors(r.in.body) = {} =>
                /\ r.upstreamCalls = 0
                /\ r.pc = "done"
                /\ r.resp.status = 202
                /\ r.resp.message # "" /\ r.resp.messageId # ""
                /\ r.in.body.messageId # "" =>
                        r.resp.messageId = r.in.body.messageId

\* C19 as stated: an authenticated POST /hl7/message whose messageType or
\* content is missing or empty is answered 400 with the fields at fault and
\* is never forwarded to an upstream.
C19_Original ==
    \A s \in Slots :
        LET r == reqs[s]
        IN  AuthenticatedHl7Message(r) /\ Hl7Errors(r.in.body) # {} =>
                /\ r.upstreamCalls = 0
                /\ r.pc = "done"
                /\ r.resp.status = 400
                /\ r.resp.errors = Hl7Errors(r.in.body)

\* neither GET /health nor POST /oauth/token nor under a proxied prefix
NoRoute(method, path) ==
    /\ ~(method = "GET" /\ path = <<"health">>)
    /\ ~(method = "POST" /\ path = <<"oauth", "token">>)
    /\ ~ProtectedPath(path)

NotFound == JsonError(404, "Endpoint not found")

\* C20 as stated: every admitted request whose method and path match no
\* route is answered 404 {error: 'Endpoint not found'}, with or without a
\* token, and makes no upstream call.
C20_Original ==
    \A s \in Slots :
        LET r == reqs[s]
        IN  r.pc = "done" /\ Admitted(r) /\ NoRoute(r.in.method, r.in.path) =>
                r.resp = NotFound /\ r.upstreamCalls = 0

\* C20, amended: every admitted request whose body parses and whose method
\* and path match no route is answered 404 {error: 'Endpoint not found'},
\* with or without a token (which is not looked at), and makes no upstream
\* call; one whose body does not parse is answered 500 by the error handler,
\* without an upstream call either.
C20_NotFoundWhenBodyParses ==
    \A s \in Slots :
        LET r == reqs[s]
        IN  r.pc = "done" /\ Admitted(r) /\ NoRoute(r.in.method, r.in.path) =>
                /\ r.upstreamCalls = 0 /\ r.user = {} /\ r.sent = 1
                /\ "verify" \notin r.ran
                /\ r.resp = IF r.in.body.ok THEN NotFound
                            ELSE [JsonError(500, "Internal server error")
                                    EXCEPT !.requestId = r.resp.requestId]

\* a request with a valid token for a path next to a proxied prefix
C20_Witness ==
    \E s \in Slots :
        LET r == reqs[s]
        IN  /\ r.pc = "done" /\ Admitted(r)
            /\ r.in.path = <<"fhirx", "Patient">>
            /\ Genuine(HeaderToken(r.in.auth), r.at)
            /\ r.resp = NotFound

\* a pipeline stage passed an error on: the error handler ran
ErrorHandled(r) == r.pc = "done" /\ "error" \in r.ran

C22_OneUpstreamRequest ==
    \A s \in Slots :
        LET r == reqs[s]
        IN  /\ r.upstreamCalls <= 1
            /\ Unavailable(r) => r.upstreamCalls = 1
            /\ PassedAuth(r) => r.upstreamCalls = 1 /\ r.upstream = r.in.path[1]

\* the third request of a caller, to a failed upstream: one upstream request
C22_Witness ==
    \E s \in Slots :
        LET r == reqs[s]
        IN  /\ Unavailable(r)
            /\ r.totalHits = 3
            /\ r.upstreamCalls = 1

\* the Authorization header computed from the FHIR route's `auth` option
InjectedCredential == <<TextWord("Basic"), TextWord("YWRtaW46YWRtaW4xMjM=")>>

\* C23 as stated: every request the gateway forwards to the FHIR upstream
\* carries the route's injected basic credential in its outbound
\* Authorization header, also when the inbound Authorization header holds the
\* caller's bearer token.
C23_Original ==
    \A s \in Slots :
        LET r == reqs[s]
        IN  r.upstreamCalls > 0 /\ r.upstream = "fhir" =>
                r.outAuth = InjectedCredential

C25_SecurityHeadersOnEveryResponse ==
    \A s \in Slots :
        LET r == reqs[s]
        IN  /\ r.pc # "idle" => {"helmet", "cors"} \subseteq r.ran
            /\ r.sent >= 1 /\ "relay" \notin r.ran =>
                    /\ SecurityHeaders \subseteq r.sentHeaders
                    /\ r.resp.status \in
                          {200, 204, 400, 401, 403, 404, 429, 500, 502}

\* a rate-limited request: the 429 carries the security headers
C25_Witness ==
    \E s \in Slots :
        LET r == reqs[s]
        IN  /\ r.pc = "done" /\ r.resp.status = 429
            /\ SecurityHeaders \subseteq r.sentHeaders
            /\ r.ran = {"helmet", "cors", "limiter"}

\* C26 as stated: the 502 body returned on an upstream failure does not
\* depend on the upstream's host or port: for a request waiting on its
\* upstream, the failures of two upstreams that differ only in their address
\* yield the same client-visible body.
C26_Original ==
    \A s \in Slots :
        LET r == reqs[s]
        IN  r.pc = "upstream" =>
                \A a, b \in UpstreamAddresses :
                    onError(r, r.upstream, ConnectError(a)).resp
                        = onError(r, r.upstream, ConnectError(b)).resp

\* a request arrives in slot s in this step
Arrives(s) == reqs[s].pc = "idle" /\ reqs'[s].pc # "idle"

\* the count of the key after one more request at this time
Counted(ip) ==
    IF hits[ip].resetTime <= now THEN 1 ELSE hits[ip].totalHits + 1

\* C27 as stated: the Rate Limiter is invoked exactly once per inbound
\* request, before routing and for every route: every request that arrives
\* increments its caller key's counter by exactly one, and nothing else
\* changes a counter.
C27_Original ==
    [][/\ \A s \in Slots :
            Arrives(s) =>
                LET ip == reqs'[s].in.ip
                IN  /\ hits'[ip].totalHits = Counted(ip)
                    /\ reqs'[s].totalHits = hits'[ip].totalHits
       /\ (\A s \in Slots : ~Arrives(s)) => hits' = hits]_vars

\* C27, amended: the Rate Limiter is invoked exactly once per inbound
\* request other than an OPTIONS request, before routing and for every
\* route: every such request (to /health, to /oauth/token, to a proxied
\* prefix, to an unmatched path, whatever it is answered later) increments
\* its caller key's counter by exactly one when it arrives, and nothing else
\* changes a counter; an OPTIONS request is answered by the CORS stage before
\* the Rate Limiter and is not counted.
C27_CountedOnceUnlessPreflight ==
    [][/\ \A s \in Slots :
            Arrives(s) =>
                LET ip == reqs'[s].in.ip
                IN  IF reqs'[s].in.method = "OPTIONS"
                    THEN hits' = hits /\ "limiter" \notin reqs'[s].ran
                    ELSE /\ hits'[ip].totalHits = Counted(ip)
                         /\ reqs'[s].totalHits = hits'[ip].totalHits
                         /\ \A other \in Ips \ {ip} : hits'[other] = hits[other]
       /\ (\A s \in Slots : ~Arrives(s)) => hits' = hits]_vars

\* the second request of a caller, rejected 401 later, counted as the second
C27_Witness ==
    \E s \in Slots :
        LET r == reqs[s]
        IN  /\ r.pc = "done" /\ r.resp.status = 401
            /\ r.totalHits = 2
            /\ hits[r.in.ip].totalHits = 2

\* C28: for every caller key the count of the window never decreases while
\* the window is open (it grows by one with each request), and the only
\* other change is the restart of the window once window_duration has elapsed
\* since its start: the new window begins at the request that finds the old
\* one ended and counts that request alone; nothing of the old count is
\* carried over or credited back.
C28_MonotoneOrReset ==
    [][\A ip \in Ips :
          LET h == hits[ip]
              g == hits'[ip]
          IN  \/ g = h
              \/ /\ now < h.resetTime
                 /\ g.resetTime = h.resetTime
                 /\ g.totalHits = h.totalHits + 1
              \/ /\ now >= h.resetTime
                 /\ g = [totalHits |-> 1, resetTime |-> now + windowMs]]_vars

\* the window after one in which more than the limit arrived: a count of one
C28_Witness ==
    /\ hits["ip1"] = [totalHits |-> 1, resetTime |-> 2 * windowMs]
    /\ win["ip1"].prevOver

\* C29 as stated: for every request that passes the Auth Gate, the userId of
\* its audit entry is the client_id of the presented token; 'anonymous' is
\* recorded only for a request without an authenticated principal.
C29_Original ==
    \A s \in Slots :
        LET r == reqs[s]
        IN  \A i \in AuditRecords(r) :
                /\ PassedAuth(r) =>
                      r.logs[i].userId = HeaderToken(r.in.auth).payload.client_id
                /\ r.logs[i].userId = "anonymous" => r.user = {}

\* the tokens the Auth Gate accepts at time t, of any client and any scope
ValidTokens(t) ==
    {Jwt(p, JwtSecret, p) :
        p \in [client_id : {"c1", "c2", "mallory"},
               scope : {TokenScope, "admin", ""},
               iss : {TokenIssuer},
               iat : {Seconds(t)}, exp : {Seconds(t) + expiresIn}]}

\* C30: the routes are gated on the presence of a valid token only: an
\* admitted request to /fhir, /hl7, /epic or /audit is forwarded exactly when
\* its token is valid, and for a request about to be handled the outcome
\* (forwarded or not, to which upstream, the response) is the same for any
\* two valid tokens, whatever their scope and client_id.
C30_ScopeBlind ==
    \A s \in Slots :
        LET r == reqs[s]
        IN  /\ /\ r.pc \in {"upstream", "done"}
               /\ ProtectedPath(r.in.path) /\ Admitted(r) /\ r.in.body.ok
               => (r.upstreamCalls = 1 <=> Genuine(HeaderToken(r.in.auth), r.at))
            /\ r.pc = "limiter" /\ ProtectedPath(r.in.path) =>
                  \A t1, t2 \in ValidTokens(now) :
                      LET a == AfterIncrement([r EXCEPT !.in.auth = <<Bearer, t1>>],
                                              now, JwtSecret)
                          b == AfterIncrement([r EXCEPT !.in.auth = <<Bearer, t2>>],
                                              now, JwtSecret)
                      IN  /\ a.upstreamCalls = b.upstreamCalls
                          /\ a.upstream = b.upstream
                          /\ a.resp = b.resp /\ a.sent = b.sent

\* a token of another client with the scope 'admin', signed with the
\* gateway's key: its request is forwarded like any other
C30_Witness ==
    \E s \in Slots :
        LET r == reqs[s]
        IN  /\ r.pc = "upstream" /\ r.upstreamCalls = 1
            /\ HeaderToken(r.in.auth) = Outsider
            /\ Outsider.payload.scope # TokenScope
            /\ \E x \in wallet : x.tok.payload.client_id # Outsider.payload.client_id

\* C31 as stated: for every authenticated proxied request, the upstream
\* request has the same method and the same body as the inbound request,
\* also when the body-decode stage has read the body before dispatch.
C31_Original ==
    \A s \in Slots :
        LET r == reqs[s]
        IN  r.upstreamCalls > 0 =>
                /\ r.outMethod = r.in.method
                /\ r.outBody = r.in.body

\* a token issued to c1 at time 0, whether or not this history issued it
EarlyToken == jwtSign("c1", JwtSecret, 0)

\* tokens a caller may present in any state
ProbeTokens ==
    {EarlyToken, Tampered(EarlyToken), Resigned(EarlyToken), Outsider, Forged, Garbage}
    \cup {x.tok : x \in wallet}

\* the gate's decision for a request that carries tok, taken at time t
GateAccepts(tok, t) ==
    authenticateToken([IdleReq EXCEPT !.in.auth = <<Bearer, tok>>], t, JwtSecret).user # {}

\* C32: the decision of authenticateToken for a token is determined by the
\* token's signature, its exp and the current time: in every reachable state,
\* whatever requests, issuances, rejections and rate-limit counts came before
\* and whether or not the token is still remembered, a request that reached
\* the gate with a token was accepted exactly when the token was genuine at
\* that time, and the gate would accept exactly the tokens genuine now.
C32_DecisionByTokenAndTime ==
    /\ \A s \in Slots :
           LET r == reqs[s]
               tok == HeaderToken(r.in.auth)
           IN  ("auth" \in r.ran /\ ~Falsy(tok)) => (r.user # {} <=> Genuine(tok, r.at))
    /\ \A tok \in ProbeTokens : GateAccepts(tok, now) <=> Genuine(tok, now)

\* a token is accepted after earlier requests, at a later time, when the
\* history no longer remembers its issuance
C32_Witness ==
    \E s \in Slots :
        LET r == reqs[s]
        IN  /\ r.user # {}
            /\ r.at > 0
            /\ wallet = {}
            /\ hits[r.in.ip].totalHits >= 2

\* a token is rejected at a time past its expiry although it was accepted before
C32_WitnessExpired ==
    \E s \in Slots :
        LET r == reqs[s]
        IN  /\ "verify" \in r.ran
            /\ r.user = {}
            /\ HeaderToken(r.in.auth) = EarlyToken
            /\ ~GateAccepts(EarlyToken, now)

\* the chain of a request about to be handled, with the sink working or down
ChainWith(r, down) ==
    AfterIncrement([r EXCEPT !.at = now, !.sinkDown = down], now, JwtSecret)

\* C33 as stated: a failure of the audit sink while an entry is recorded
\* neither fails nor delays the response (the request is dispatched and
\* answered as when the sink works), and each failure is counted in an
\* internal error counter.
C33_Original ==
    \A s \in Slots :
        LET r == reqs[s]
        IN  /\ r.pc = "limiter" =>
                   /\ ChainWith(r, TRUE).resp = ChainWith(r, FALSE).resp
                   /\ ChainWith(r, TRUE).upstreamCalls = ChainWith(r, FALSE).upstreamCalls
            /\ r.sinkErrors = r.lost

\* a request of a caller never answered 429 while the caller is within its
\* own limit, whatever the other callers' counts
C34_OwnLimitOnly ==
    \A s \in Slots :
        LET r == reqs[s]
        IN  (r.pc = "done" /\ WithinLimit(r)) => r.resp.status # 429

\* a request changes the count and the reset time of its own key only
C34_Frame ==
    [][\A s \in Slots :
          Arrives(s) =>
              LET ip == reqs'[s].in.ip
              IN  /\ hits'[ip].totalHits = Counted(ip)
                  /\ \A other \in Ips \ {ip} : hits'[other] = hits[other]]_vars

\* C34: the rate-limit state is per caller key: a request from key A changes
\* only A's count and reset time and leaves every other key's unchanged, and
\* a request from key B within B's own limit is never answered 429, also
\* while A is past its limit.
C34_PerKey == []C34_OwnLimitOnly /\ C34_Frame

\* ip2 is admitted while ip1 is past its limit in a window still open
C34_Witness ==
    \E s \in Slots :
        LET r == reqs[s]
        IN  /\ r.pc = "done" /\ r.in.ip = "ip2" /\ r.resp.status = 200
            /\ hits["ip1"].totalHits > max
            /\ hits["ip1"].resetTime > now

\* C35: a token returned by POST /oauth/token and presented unmodified as
\* the bearer token before its expiry passes authenticateToken on each of
\* /fhir, /hl7, /epic and /audit whenever the gate examines it: the request
\* gets as principal the token's payload, whose client_id is the one given at
\* issuance, and is forwarded, with JWT_SECRET set or unset.
C35_RoundTrip ==
    \A s \in Slots, x \in wallet :
        LET r == reqs[s]
        IN  (/\ r.pc \in {"upstream", "done"}
             /\ "auth" \in r.ran
             /\ ProtectedPath(r.in.path)
             /\ r.in.auth = <<Bearer, x.tok>>
             /\ Seconds(r.at) < x.tok.payload.exp) =>
                /\ r.user = {x.tok.payload}
                /\ \A u \in r.user : u.client_id = x.client_id
                /\ r.upstreamCalls = 1
                /\ r.resp.status \notin {401, 403}

\* with JWT_SECRET unset, a token issued to c2 passes the gate of /audit in
\* the last second of its life
C35_Witness ==
    \E s \in Slots, x \in wallet :
        LET r == reqs[s]
        IN  /\ env = ""
            /\ x.client_id = "c2"
            /\ r.in.auth = <<Bearer, x.tok>>
            /\ r.in.path = <<"audit", "events">>
            /\ r.at = x.tok.payload.exp * 1000 - 1
            /\ r.user = {x.tok.payload}
            /\ r.upstreamCalls = 1

\* every request has at most one response, and what was relayed stays
C36_OneResponse ==
    \A s \in Slots :
        LET r == reqs[s]
        IN  /\ r.sent <= 1
            /\ (r.sent = 1 /\ "relay" \in r.ran) =>
                    r.resp.status = r.up.status /\ r.resp.error = ""

\* a response that has gone out is not written again while its request lasts
C36_Final ==
    [][\A s \in Slots :
          (reqs[s].sent = 1 /\ reqs'[s].pc # "idle") =>
              /\ reqs'[s].sent = 1
              /\ reqs'[s].resp = reqs[s].resp
              /\ reqs'[s].sentHeaders = reqs[s].sentHeaders]_vars

C37_SecondWordIsToken ==
    \A s \in Slots :
        LET r == reqs[s]
        IN  (r.pc \in {"upstream", "done"} /\ "auth" \in r.ran) =>
                /\ (Len(r.in.auth) >= 2 /\ Genuine(r.in.auth[2], r.at)) =>
                        /\ r.user = {r.in.auth[2].payload}
                        /\ r.upstreamCalls = 1
                        /\ r.resp.status \notin {401, 403}
                /\ Len(r.in.auth) = 1 =>
                        /\ r.resp = JsonError(401, "Access token required")
                        /\ "verify" \notin r.ran
                        /\ r.user = {} /\ r.upstreamCalls = 0
                        /\ r.logs = <<>>

\* a valid token behind the scheme word Basic is authenticated and forwarded
C37_Witness ==
    \E s \in Slots, x \in wallet :
        LET r == reqs[s]
        IN  /\ r.in.auth = <<Basic, x.tok>>
            /\ r.user = {x.tok.payload}
            /\ r.upstreamCalls = 1

\* the header 'Bearer' alone is answered 401
C37_WitnessOneWord ==
    \E s \in Slots :
        LET r == reqs[s]
        IN  /\ r.pc = "done" /\ r.in.auth = <<Bearer>>
            /\ r.resp.status = 401
====
